---- MODULE Spec2Model ----
(***************************************************************************)
(* A model of domchecker.py: the fetcher get_with_ttfb, the prober probe,  *)
(* the worker pool over an asyncio.Queue and the driver main_async with    *)
(* its signal-driven shutdown.                                             *)
(*                                                                         *)
(* Two specifications share the module.  ProbeSpec runs one probe() call   *)
(* step by step against every pair of endpoint behaviours; Spec runs the   *)
(* driver, the workers and the signal handler, one action per stretch of   *)
(* code between two suspension points (await).                             *)
(***************************************************************************)
EXTENDS Integers, Sequences, FiniteSets, TLC

VARIABLES
    \* ---- one probe() call (ProbeSpec) ----
    net,             \* <<what https://domain does, what http://domain does>>
    read_min_bytes,  \* --read-min-bytes
    p,               \* the frame of probe() and of the get_with_ttfb() it awaits
    \* ---- one run of main_async (Spec) ----
    domains_file,    \* the input file: its lines, in order
    dominios,        \* the deduplicated input list
    concurrency,     \* --concurrency
    rps,             \* --rps
    delay,           \* per_request_delay, a fraction of a second
    queue,           \* asyncio.Queue: the items waiting
    unfinished,      \* asyncio.Queue: its count of unfinished tasks
    join_woken,      \* asyncio.Queue: the count reached zero, join() is woken
    stop_event,      \* asyncio.Event set by SIGINT/SIGTERM
    counters,        \* {"done": .., "alive": ..}
    activos_list,    \* the alive domains, in order of discovery
    ui,              \* the UI object's done / alive / printed_domains
    wpc,             \* each worker task: the await it is suspended at
    wdom,            \* each worker task: its local `domain` (0: none)
    cancel_req,      \* each worker task: t.cancel() called, not yet delivered
    dpc,             \* the driver: where main_async stands
    exit_code,       \* main_async's return value (-1: not returned)
    \* ---- history of the run, read only by the properties ----
    probes,          \* per domain: how many times probe() was started on it
    done_log,        \* the domains counted in counters["done"], in order
    results,         \* per domain: what its probe returned ("none" so far)
    dropped,         \* the domains discarded by the forced shutdown, in order
    requeued         \* the domains pushed back by line 111, in order

probe_vars == <<net, read_min_bytes, p>>
run_vars == <<domains_file, dominios, concurrency, rps, delay, queue,
              unfinished, join_woken, stop_event, counters, activos_list, ui, wpc, wdom, cancel_req,
              dpc, exit_code, probes, done_log, results, dropped, requeued>>
vars == <<net, read_min_bytes, p, domains_file, dominios, concurrency, rps,
          delay, queue, unfinished, join_woken, stop_event, counters,
          activos_list, ui, wpc, wdom, cancel_req, dpc, exit_code, probes, done_log, results,
          dropped, requeued>>

\* ------------------------------------------------------------------ bounds

\* The longest response body, in bytes, an endpoint sends.
MaxBody == 3
\* The largest --read-min-bytes tried.
MaxMinBytes == 2
\* The largest --concurrency tried.
MaxConcurrency == 2
\* The longest input list tried.
MaxDomains == 3
\* The longest line and the longest file tried when the file is read.
MaxLineLen == 2
MaxLines == 4
\* The largest --concurrency tried for the pacing delay.
MaxPaceConcurrency == 50

Min(a, b) == IF a < b THEN a ELSE b

\* ------------------------------------------------- the network (environment)

\* What session.get and the body stream can fail with, by the taxonomy's names:
\* aiohttp.ClientConnectorError, asyncio.TimeoutError, aiohttp.TooManyRedirects.
GetFailures == {"TransportFailure", "Timeout", "ProtocolFailure"}

\* The final statuses tried (redirects are followed by aiohttp itself).
Statuses == {200, 204, 404}

\* The bodies: the sizes of the bursts of bytes that arrive, in order.
RECURSIVE BodiesUpTo(_)
BodiesUpTo(n) ==
    IF n = 0 THEN {<<>>}
    ELSE {<<>>} \cup {<<k>> \o b : k \in 1..n, b \in BodiesUpTo(n - 1)}

RECURSIVE SumSeq(_)
SumSeq(s) == IF s = <<>> THEN 0 ELSE Head(s) + SumSeq(Tail(s))

Bodies == {b \in BodiesUpTo(MaxBody) : SumSeq(b) <= MaxBody}

\* An endpoint either fails the GET, or answers with a status and a body whose
\* stream then ends ("eof") or stalls past the read timeout ("stall").
Endpoints ==
    [kind : {"fail"}, err : GetFailures]
    \cup [kind : {"resp"}, status : Statuses, body : Bodies, end : {"eof", "stall"}]

Nets == Endpoints \X Endpoints

MinBytesChoices == 0..MaxMinBytes

\* ------------------------------------------------------------ get_with_ttfb

\* The cap on one resp.content.read().
ChunkCap == 8192

\* Line 47: the only check made on the body once the read loop is over.
\* (Two slips of it: without `want > 0`, and without the check.)
NoBodyCheckAlways(first_byte_elapsed, want) == ~first_byte_elapsed
NoBodyCheckNever(first_byte_elapsed, want) == FALSE
NoBodyCheck(first_byte_elapsed, want) == ~first_byte_elapsed /\ want > 0

\* An exception leaves get_with_ttfb(): the attempt is over, and failed.
raise(s, err) ==
    [s EXCEPT !.pc = "except", !.err = err,
              !.att[Len(s.att)] = [@ EXCEPT !.state = "failed", !.err = err]]

\* Lines 47-49, reached when the loop of line 34 ends or breaks.
after_body(s) ==
    IF NoBodyCheck(s.first_byte, s.want)
    THEN raise(s, "NoBodyData")
    ELSE [s EXCEPT !.pc = "fetched", !.att[Len(s.att)].state = "returned"]

\* Line 27 resolving: the GET fails, or the headers are in.  A 204 returns at
\* once (line 30); otherwise the read loop starts with got = 0 (lines 31-34).
\* (A slip of it: no early return on 204, its body awaited like any other.)
session_get_reads_204(s, nt, mb) ==
    LET e == nt[s.i] IN
    IF e.kind = "fail"
    THEN raise(s, e.err)
    ELSE LET t == [s EXCEPT !.status = e.status, !.want = mb, !.got = 0,
                            !.reads = 0, !.first_byte = FALSE, !.rest = e.body]
         IN  IF t.got < t.want THEN [t EXCEPT !.pc = "body"] ELSE after_body(t)
session_get(s, nt, mb) ==
    LET e == nt[s.i] IN
    IF e.kind = "fail"
    THEN raise(s, e.err)
    ELSE IF e.status = 204
    THEN [s EXCEPT !.pc = "fetched", !.status = 204, !.got = 0, !.want = 0,
                   !.reads = 0, !.first_byte = FALSE, !.rest = <<>>,
                   !.att[Len(s.att)].state = "returned"]
    ELSE LET t == [s EXCEPT !.status = e.status, !.want = mb, !.got = 0,
                            !.reads = 0, !.first_byte = FALSE, !.rest = e.body]
         IN  IF t.got < t.want THEN [t EXCEPT !.pc = "body"] ELSE after_body(t)

\* Lines 35-46: one resp.content.read(min(8192, want - got)) under wait_for,
\* then the loop test of line 34 again.
read_body(s, nt) ==
    LET e == nt[s.i]
        n == Min(ChunkCap, s.want - s.got)
    IN  IF s.rest = <<>>
        THEN IF e.end = "stall"
             THEN raise([s EXCEPT !.reads = s.reads + 1], "Timeout")
             ELSE after_body([s EXCEPT !.reads = s.reads + 1])
        ELSE LET k == Min(n, Head(s.rest))
                 t == [s EXCEPT !.got = s.got + k,
                                !.first_byte = TRUE,
                                !.reads = s.reads + 1,
                                !.rest = IF k = Head(s.rest) THEN Tail(s.rest)
                                         ELSE <<Head(s.rest) - k>> \o Tail(s.rest)]
             IN  IF t.got < t.want THEN t ELSE after_body(t)

\* -------------------------------------------------------------------- probe

schemes == <<"https://", "http://">>

IsAlive(status) == 200 <= status /\ status < 300

\* `except Exception` of line 60: every failure of an attempt is an Exception.
\* (A slip of it: `except asyncio.TimeoutError`.)
CatchesTimeoutOnly(err) == err \in {"Timeout", "NoBodyData"}
Catches(err) == err \in GetFailures \cup {"NoBodyData"}

\* The frame when probe() is entered.
ProbeStart ==
    [pc |-> "loop", i |-> 1, att |-> <<>>, status |-> 0, got |-> 0, want |-> 0,
     reads |-> 0, first_byte |-> FALSE, rest |-> <<>>, err |-> "none",
     alive |-> FALSE]

\* Lines 54-57 and 62: the next scheme's attempt starts, or none is left.
probe_loop(s) ==
    IF s.i <= Len(schemes)
    THEN [s EXCEPT !.pc = "get",
                   !.att = Append(s.att, [scheme |-> schemes[s.i],
                                          state |-> "running",
                                          err |-> "none"])]
    ELSE [s EXCEPT !.pc = "return", !.alive = FALSE]

\* Lines 58-59: whatever status came back decides, and probe() returns.
\* (Two slips of it: going on to the next scheme after a non-2xx status, and
\* trying every scheme before returning.)
probe_fetched_retry(s) ==
    IF IsAlive(s.status) THEN [s EXCEPT !.pc = "return", !.alive = TRUE]
    ELSE [s EXCEPT !.pc = "loop", !.i = s.i + 1]
probe_fetched_both(s) ==
    IF s.i < Len(schemes) THEN [s EXCEPT !.pc = "loop", !.i = s.i + 1]
    ELSE [s EXCEPT !.pc = "return", !.alive = IsAlive(s.status)]
probe_fetched(s) == [s EXCEPT !.pc = "return", !.alive = IsAlive(s.status)]

\* Lines 60-61: an Exception is swallowed and the loop goes on.
probe_except(s) ==
    IF Catches(s.err) THEN [s EXCEPT !.pc = "loop", !.i = s.i + 1]
    ELSE [s EXCEPT !.pc = "raised"]

ProbeOver(s) == s.pc \in {"return", "raised"}

ProbeStep(s, nt, mb) ==
    CASE s.pc = "loop"    -> probe_loop(s)
      [] s.pc = "get"     -> session_get(s, nt, mb)
      [] s.pc = "body"    -> read_body(s, nt)
      [] s.pc = "fetched" -> probe_fetched(s)
      [] s.pc = "except"  -> probe_except(s)
      [] OTHER            -> s

\* probe() and get_with_ttfb() run to their end.
RECURSIVE RunProbe(_, _, _)
RunProbe(s, nt, mb) ==
    IF ProbeOver(s) THEN s ELSE RunProbe(ProbeStep(s, nt, mb), nt, mb)

probe(nt, mb) == RunProbe(ProbeStart, nt, mb)

RECURSIVE RunFetch(_, _, _)
RunFetch(s, nt, mb) ==
    IF s.pc \in {"fetched", "except"} THEN s
    ELSE RunFetch(ProbeStep(s, nt, mb), nt, mb)

\* One get_with_ttfb() call against endpoint e.
get_with_ttfb(e, mb) == RunFetch(probe_loop(ProbeStart), <<e, e>>, mb)

\* What probe() can return as `alive`, over every network and threshold tried.
ProbeResults == {probe(nt, mb).alive : nt \in Nets, mb \in MinBytesChoices}

\* ------------------------------------------------------------ asyncio.Queue

\* The queue as one value: the items waiting, the unfinished-task count and
\* whether join() has been woken.
Q == [items |-> queue, unfinished |-> unfinished, woken |-> join_woken]

\* Line 111: the domain joins the end of the queue, one more unfinished task.
\* (Two slips of it: the item neither stored nor counted; the item counted
\* and not stored.)
put_nowait_dropped(q, d) == q
put_nowait_lost(q, d) == [q EXCEPT !.unfinished = q.unfinished + 1]
put_nowait(q, d) ==
    [q EXCEPT !.items = Append(q.items, d), !.unfinished = q.unfinished + 1]

get_nowait(q) == [q EXCEPT !.items = Tail(q.items)]

\* Line 123 (and line 131): one unfinished task less; at zero the queue
\* wakes whoever waits in join(), and a later put does not take that back.
\* (A slip of it: the acknowledgment left out.)
task_done_forgotten(q) == q
task_done(q) ==
    [q EXCEPT !.unfinished = q.unfinished - 1,
              !.woken = q.woken \/ q.unfinished - 1 = 0]

\* Lines 127-133: get_nowait() and task_done() until QueueEmpty.
\* (A slip of it: one item taken, no loop.)
drain_queue_once(q) ==
    IF q.items = <<>> THEN q ELSE task_done(get_nowait(q))
RECURSIVE drain_queue(_)
drain_queue(q) ==
    IF q.items = <<>> THEN q ELSE drain_queue(task_done(get_nowait(q)))

\* ------------------------------------------------------------- main_async

\* The inputs tried.  A domain is named by its rank among the input's distinct
\* lines, so the deduplicated list of n lines is <<1, .., n>>.
DomainLists == {[k \in 1..n |-> k] : n \in 0..MaxDomains}
ConcurrencyChoices == 1..MaxConcurrency
RpsChoices == {0, 10}

\* The characters a line is made of: a letter and a blank.
Chars == {"a", " "}
IsSpace(c) == c = " "

\* The files tried by LoadSpec: up to MaxLines lines of up to MaxLineLen
\* characters (the line terminator, which strip() removes too, left out).
Lines == UNION {[1..n -> Chars] : n \in 0..MaxLineLen}
Files == UNION {[1..n -> Lines] : n \in 0..MaxLines}

\* str.strip() of line 140: the leading and the trailing blanks go.
RECURSIVE lstrip(_)
lstrip(l) == IF l # <<>> /\ IsSpace(Head(l)) THEN lstrip(Tail(l)) ELSE l

RECURSIVE rstrip(_)
rstrip(l) ==
    IF l # <<>> /\ IsSpace(l[Len(l)]) THEN rstrip(SubSeq(l, 1, Len(l) - 1))
    ELSE l

strip(l) == rstrip(lstrip(l))

\* Line 140: raw = [line.strip() for line in f].
raw(f) == [k \in 1..Len(f) |-> strip(f[k])]

\* Line 141: the empty lines are left out.
non_empty(r) == SelectSeq(r, LAMBDA d : d # <<>>)

\* Lines 142-143: a line passes when it is not in `seen`, and is added to it.
\* (A slip of it: of a repeated line the last occurrence kept, not the first.)
RECURSIVE unseen_last(_, _)
unseen_last(ds, seen) ==
    IF ds = <<>> THEN <<>>
    ELSE IF \E k \in 2..Len(ds) : ds[k] = Head(ds)
         THEN unseen_last(Tail(ds), seen)
         ELSE <<Head(ds)>> \o unseen_last(Tail(ds), seen)
RECURSIVE unseen(_, _)
unseen(ds, seen) ==
    IF ds = <<>> THEN <<>>
    ELSE IF Head(ds) \in seen THEN unseen(Tail(ds), seen)
         ELSE <<Head(ds)>> \o unseen(Tail(ds), seen \cup {Head(ds)})

\* Lines 139-143: the list of domains read from the file.
load(f) == unseen(non_empty(raw(f)), {})

\* The inputs tried for the pacing delay.
PaceConcurrencyChoices == 1..MaxPaceConcurrency
PaceRpsChoices == {-1, 0, 1, 3, 10, 20}

\* Lines 147-149, as the exact fraction num/den of a second.
\* (A slip of it: rps / concurrency.)
per_request_delay_inverse(c, r) ==
    IF r > 0 /\ c >= 0 THEN [num |-> r, den |-> c] ELSE [num |-> 0, den |-> 1]
per_request_delay(c, r) ==
    IF r > 0 /\ c >= 0 THEN [num |-> c, den |-> r] ELSE [num |-> 0, den |-> 1]

\* Before line 147 the delay is not computed yet: no fraction.
Unset == [num |-> 0, den |-> 0]

\* `per_request_delay > 0` of line 124.
Paced == delay.num > 0

\* Line 182: one worker task per i in range(concurrency).
\* (A slip of it: range(concurrency + 1).)
TasksOneMore(c) == 0..c
Tasks(c) == 0..(c - 1)

total == Len(dominios)

\* Line 197: the stop flag alone decides the status.
\* (A variant: the status decided by whether everything was processed.)
ExitCodeByCompletion(stop) == IF counters.done = total THEN 0 ELSE 130
ExitCode(stop) == IF ~stop THEN 0 ELSE 130

Finished(w) == wpc[w] \in {"returned", "cancelled"}

\* Lines 194-195: t.cancel() on every task; a finished task ignores it.
CancelAll == [w \in DOMAIN wpc |-> ~Finished(w)]

\* ----------------------------------------------------------------- worker

\* Lines 100-104: the loop's head, up to the await of the timed queue.get().
loop_top(stop) == IF stop THEN "returned" ELSE "get"

\* Line 110: the check made between the pop and the probe.
\* (A slip of it: the check left out.)
StopSeenNever(stop) == FALSE
StopSeen(stop) == stop

\* Lines 111-112 and 123: the domain is pushed back, then, on the way out
\* through the finally block, acknowledged.
\* (A slip of it: the acknowledgment first, the push after it.)
put_back_ack_first(q, d) == put_nowait(task_done(q), d)
put_back(q, d) == task_done(put_nowait(q, d))

\* Lines 109-113 and the finally of 122-125 on the put-back path: with the
\* stop flag set the popped domain goes back and the worker returns, after
\* task_done() and the pacing sleep; otherwise probe() starts.
after_get(w) ==
    IF StopSeen(stop_event)
    THEN LET q == put_back(Q, wdom[w]) IN
         /\ queue' = q.items
         /\ unfinished' = q.unfinished
         /\ join_woken' = q.woken
         /\ requeued' = Append(requeued, wdom[w])
         /\ wdom' = [wdom EXCEPT ![w] = 0]
         /\ wpc' = [wpc EXCEPT ![w] = IF Paced THEN "sleep_ret" ELSE "returned"]
         /\ UNCHANGED probes
    ELSE /\ wpc' = [wpc EXCEPT ![w] = "probe"]
         /\ probes' = [probes EXCEPT ![wdom[w]] = @ + 1]
         /\ UNCHANGED <<queue, unfinished, join_woken, requeued, wdom>>

Runnable(w) ==
    /\ dpc \in {"join", "gather"}
    /\ w \in DOMAIN wpc
    /\ ~cancel_req[w]

\* The task's first step.
WorkerStart(w) ==
    /\ Runnable(w) /\ wpc[w] = "start"
    /\ wpc' = [wpc EXCEPT ![w] = loop_top(stop_event)]
    /\ UNCHANGED <<probe_vars, domains_file, dominios, concurrency, rps, delay,
                   queue, unfinished, join_woken,
                   stop_event, counters, activos_list, ui, wdom, cancel_req,
                   dpc, exit_code, probes, done_log, results, dropped, requeued>>

\* Line 104: queue.get() hands over the head of the queue.
GetItem(w) ==
    /\ Runnable(w) /\ wpc[w] = "get" /\ queue # <<>>
    /\ wdom' = [wdom EXCEPT ![w] = Head(queue)]
    /\ queue' = get_nowait(Q).items
    /\ wpc' = [wpc EXCEPT ![w] = "got"]
    /\ UNCHANGED <<probe_vars, domains_file, dominios, concurrency, rps, delay,
                   unfinished, join_woken,
                   stop_event, counters, activos_list, ui, cancel_req, dpc,
                   exit_code, probes, done_log, results, dropped, requeued>>

\* Line 104: 0.2 s pass with nothing to get.
GetTimeout(w) ==
    /\ Runnable(w) /\ wpc[w] = "get" /\ queue = <<>>
    /\ wpc' = [wpc EXCEPT ![w] = "timeout"]
    /\ UNCHANGED <<probe_vars, domains_file, dominios, concurrency, rps, delay,
                   queue, unfinished, join_woken,
                   stop_event, counters, activos_list, ui, wdom, cancel_req,
                   dpc, exit_code, probes, done_log, results, dropped, requeued>>

\* Lines 105-108: return when the queue is empty, else back to the loop's head.
AfterTimeout(w) ==
    /\ Runnable(w) /\ wpc[w] = "timeout"
    /\ wpc' = [wpc EXCEPT ![w] = IF queue = <<>> THEN "returned"
                                 ELSE loop_top(stop_event)]
    /\ UNCHANGED <<probe_vars, domains_file, dominios, concurrency, rps, delay,
                   queue, unfinished, join_woken,
                   stop_event, counters, activos_list, ui, wdom, cancel_req,
                   dpc, exit_code, probes, done_log, results, dropped, requeued>>

\* Lines 109-113: the worker resumes with the popped domain.
AfterGet(w) ==
    /\ Runnable(w) /\ wpc[w] = "got"
    /\ after_get(w)
    /\ UNCHANGED <<probe_vars, domains_file, dominios, concurrency, rps, delay,
                   stop_event,
                   counters, activos_list, ui, cancel_req, dpc, exit_code,
                   done_log, results, dropped>>

\* Lines 114 and 116-117: one more done, and one more alive when alive.
\* (A slip of it: the alive counter raised on every result.)
update_counters_always(c, alive) == [done |-> c.done + 1, alive |-> c.alive + 1]
update_counters(c, alive) ==
    [done  |-> c.done + 1,
     alive |-> IF alive THEN c.alive + 1 ELSE c.alive]

\* Line 119: activos_list.append(dom).
\* (A slip of it: the domain put at the front.)
record_alive_first(list, dom) == <<dom>> \o list
record_alive(list, dom) == Append(list, dom)

\* Lines 113-125: probe() returns; the counters, the alive list and the UI are
\* updated, the item is acknowledged, and the worker sleeps or loops.
ProbeReturn(w) ==
    /\ Runnable(w) /\ wpc[w] = "probe"
    /\ \E alive \in ProbeResults :
         /\ counters' = update_counters(counters, alive)
         /\ activos_list' = IF alive THEN record_alive(activos_list, wdom[w])
                            ELSE activos_list
         /\ ui' = [ui EXCEPT !.done = counters.done + 1,
                             !.alive = IF alive THEN counters.alive + 1 ELSE @,
                             !.printed_domains = IF alive THEN @ + 1 ELSE @]
         /\ results' = [results EXCEPT ![wdom[w]] =
                                        IF alive THEN "alive" ELSE "dead"]
    /\ done_log' = Append(done_log, wdom[w])
    /\ unfinished' = task_done(Q).unfinished
    /\ join_woken' = task_done(Q).woken
    /\ wdom' = [wdom EXCEPT ![w] = 0]
    /\ wpc' = [wpc EXCEPT ![w] = IF Paced THEN "sleep" ELSE loop_top(stop_event)]
    /\ UNCHANGED <<probe_vars, domains_file, dominios, concurrency, rps, delay,
                   queue, stop_event,
                   cancel_req, dpc, exit_code, probes, dropped, requeued>>

\* Line 125: the pacing sleep ends; the loop goes on, or the pending return or
\* CancelledError leaves the finally block.
SleepDone(w) ==
    /\ Runnable(w) /\ wpc[w] \in {"sleep", "sleep_ret", "sleep_exc"}
    /\ wpc' = [wpc EXCEPT ![w] = CASE wpc[w] = "sleep"     -> loop_top(stop_event)
                                   [] wpc[w] = "sleep_ret" -> "returned"
                                   [] wpc[w] = "sleep_exc" -> "cancelled"]
    /\ UNCHANGED <<probe_vars, domains_file, dominios, concurrency, rps, delay,
                   queue, unfinished, join_woken,
                   stop_event, counters, activos_list, ui, wdom, cancel_req,
                   dpc, exit_code, probes, done_log, results, dropped, requeued>>

\* t.cancel() reaches the task at the await it is suspended at.
\*  - before its first step, in queue.get() or at the timeout: CancelledError
\*    leaves worker() at line 104, outside the try of line 109;
\*  - with queue.get() already resolved: asyncio.wait_for returns the result
\*    and swallows the cancellation, so lines 109-112 run;
\*  - in probe(): CancelledError is no Exception, line 60 lets it through and
\*    the finally block acknowledges the item, then sleeps when paced;
\*  - in the sleep of line 125: CancelledError leaves the finally block.
DeliverCancel(w) ==
    /\ dpc = "gather" /\ w \in DOMAIN wpc /\ cancel_req[w]
    /\ cancel_req' = [cancel_req EXCEPT ![w] = FALSE]
    /\ CASE wpc[w] \in {"start", "get", "timeout"} ->
              /\ wpc' = [wpc EXCEPT ![w] = "cancelled"]
              /\ UNCHANGED <<queue, unfinished, join_woken, wdom, probes, dropped, requeued>>
         [] wpc[w] = "got" ->
              /\ after_get(w)
              /\ UNCHANGED dropped
         [] wpc[w] = "probe" ->
              /\ unfinished' = task_done(Q).unfinished
              /\ join_woken' = task_done(Q).woken
              /\ dropped' = Append(dropped, wdom[w])
              /\ wdom' = [wdom EXCEPT ![w] = 0]
              /\ wpc' = [wpc EXCEPT ![w] = IF Paced THEN "sleep_exc"
                                           ELSE "cancelled"]
              /\ UNCHANGED <<queue, probes, requeued>>
         [] wpc[w] \in {"sleep", "sleep_ret", "sleep_exc"} ->
              /\ wpc' = [wpc EXCEPT ![w] = "cancelled"]
              /\ UNCHANGED <<queue, unfinished, join_woken, wdom, probes, dropped, requeued>>
    /\ UNCHANGED <<probe_vars, domains_file, dominios, concurrency, rps, delay,
                   stop_event,
                   counters, activos_list, ui, dpc, exit_code, done_log, results>>

\* ------------------------------------------------------------------ driver

\* Lines 139-143: the file is read and the list of domains computed.
Load ==
    /\ dpc = "load"
    /\ dominios' = load(domains_file)
    /\ dpc' = "init"
    /\ UNCHANGED <<probe_vars, domains_file, concurrency, rps, delay, queue,
                   unfinished, join_woken, stop_event, counters, activos_list, ui, wpc,
                   wdom, cancel_req, exit_code, probes, done_log, results,
                   dropped, requeued>>

\* Lines 144-183: nothing to do for an empty list; otherwise the queue is
\* filled in input order and the worker tasks are created.
Setup ==
    /\ dpc = "init"
    /\ IF total = 0
       THEN /\ dpc' = "returned"
            /\ exit_code' = 0
            /\ UNCHANGED <<queue, unfinished, join_woken, wpc, wdom, cancel_req, ui, delay>>
       ELSE /\ delay' = per_request_delay(concurrency, rps)
            /\ queue' = dominios
            /\ unfinished' = total
            /\ join_woken' = FALSE
            /\ ui' = [total |-> total, done |-> 0, alive |-> 0,
                      printed_domains |-> 0]
            /\ wpc' = [w \in Tasks(concurrency) |-> "start"]
            /\ wdom' = [w \in Tasks(concurrency) |-> 0]
            /\ cancel_req' = [w \in Tasks(concurrency) |-> FALSE]
            /\ dpc' = "join"
            /\ UNCHANGED exit_code
    /\ UNCHANGED <<probe_vars, domains_file, dominios, concurrency, rps,
                   stop_event, counters, activos_list, probes, done_log,
                   results, dropped, requeued>>

\* Lines 187-188 and 193-196: queue.join() returns, the loop breaks and the
\* finally block cancels every task.
JoinReturn ==
    /\ dpc = "join"
    /\ IF unfinished = 0 THEN TRUE ELSE join_woken
    /\ cancel_req' = CancelAll
    /\ dpc' = "gather"
    /\ UNCHANGED <<probe_vars, domains_file, dominios, concurrency, rps, delay,
                   queue, unfinished, join_woken,
                   stop_event, counters, activos_list, ui, wpc, wdom,
                   exit_code, probes, done_log, results, dropped, requeued>>

\* Lines 189-190: the 0.2 s poll times out with the stop flag clear.
PollAgain ==
    /\ dpc = "join" /\ unfinished > 0 /\ ~stop_event
    /\ UNCHANGED vars

\* Lines 189-196: the poll times out with the stop flag set: the queue is
\* drained, the loop breaks and the finally block cancels every task.
ForcedShutdown ==
    /\ dpc = "join" /\ unfinished > 0 /\ stop_event
    /\ LET q == drain_queue(Q) IN
         /\ queue' = q.items
         /\ unfinished' = q.unfinished
         /\ join_woken' = q.woken
    /\ dropped' = dropped \o queue
    /\ cancel_req' = CancelAll
    /\ dpc' = "gather"
    /\ UNCHANGED <<probe_vars, domains_file, dominios, concurrency, rps, delay,
                   stop_event,
                   counters, activos_list, ui, wpc, wdom, exit_code, probes,
                   done_log, results, requeued>>

\* Lines 196-197: gather() returns once every task is over.
GatherReturn ==
    /\ dpc = "gather"
    /\ \A w \in DOMAIN wpc : Finished(w)
    /\ dpc' = "returned"
    /\ exit_code' = ExitCode(stop_event)
    /\ UNCHANGED <<probe_vars, domains_file, dominios, concurrency, rps, delay,
                   queue, unfinished, join_woken,
                   stop_event, counters, activos_list, ui, wpc, wdom,
                   cancel_req, probes, done_log, results, dropped, requeued>>

\* Lines 165-166: SIGINT or SIGTERM runs stop_event.set() on the loop.
\* (A slip of it: a second signal clears the flag.)
SignalToggles ==
    /\ dpc \in {"join", "gather"}
    /\ stop_event' = ~stop_event
    /\ UNCHANGED <<probe_vars, domains_file, dominios, concurrency, rps, delay,
                   queue, unfinished, join_woken, counters, activos_list, ui, wpc, wdom,
                   cancel_req, dpc, exit_code, probes, done_log, results,
                   dropped, requeued>>
Signal ==
    /\ dpc \in {"join", "gather"}
    /\ stop_event' = TRUE
    /\ UNCHANGED <<probe_vars, domains_file, dominios, concurrency, rps, delay,
                   queue, unfinished, join_woken,
                   counters, activos_list, ui, wpc, wdom, cancel_req, dpc,
                   exit_code, probes, done_log, results, dropped, requeued>>

\* ------------------------------------------------------ the specifications

ProbeIdle == [ProbeStart EXCEPT !.pc = "idle"]

\* The part of the state the three specifications of main_async start with.
RunInit ==
    /\ net = <<>> /\ read_min_bytes = 0 /\ p = ProbeIdle
    /\ delay = Unset
    /\ queue = <<>> /\ unfinished = 0 /\ join_woken = FALSE
    /\ stop_event = FALSE
    /\ counters = [done |-> 0, alive |-> 0]
    /\ activos_list = <<>>
    /\ ui = [total |-> 0, done |-> 0, alive |-> 0, printed_domains |-> 0]
    /\ wpc = <<>> /\ wdom = <<>> /\ cancel_req = <<>>
    /\ exit_code = -1
    /\ probes = [d \in 1..MaxDomains |-> 0]
    /\ results = [d \in 1..MaxDomains |-> "none"]
    /\ done_log = <<>> /\ dropped = <<>> /\ requeued = <<>>

\* main_async at line 144, the list of domains computed: the file had one
\* clean line per domain.
Init ==
    /\ RunInit
    /\ dominios \in DomainLists
    /\ domains_file = dominios
    /\ concurrency \in ConcurrencyChoices
    /\ rps \in RpsChoices
    /\ dpc = "init"

\* The indices a worker task can have (Runnable keeps to the tasks created).
WorkerIds == 0..MaxConcurrency

WorkerNext ==
    \E w \in WorkerIds :
        \/ WorkerStart(w) \/ GetItem(w) \/ GetTimeout(w) \/ AfterTimeout(w)
        \/ AfterGet(w) \/ ProbeReturn(w) \/ SleepDone(w) \/ DeliverCancel(w)

DriverNext == Setup \/ JoinReturn \/ PollAgain \/ ForcedShutdown \/ GatherReturn

\* Every step but the arrival of a signal.
Progress == WorkerNext \/ DriverNext

Next == Progress \/ Signal

Spec == Init /\ [][Next]_vars

\* The event loop runs whatever is ready: a task or the driver that can take a
\* step is not left waiting for ever.  No signal has to arrive.
FairSpec == Spec /\ WF_vars(Progress)

\* One probe() call, stepped from its entry to its return.
ProbeLoop ==
    /\ p.pc = "loop"
    /\ p' = probe_loop(p)
    /\ UNCHANGED <<net, read_min_bytes, run_vars>>

SessionGet ==
    /\ p.pc = "get"
    /\ p' = session_get(p, net, read_min_bytes)
    /\ UNCHANGED <<net, read_min_bytes, run_vars>>

ReadBody ==
    /\ p.pc = "body"
    /\ p' = read_body(p, net)
    /\ UNCHANGED <<net, read_min_bytes, run_vars>>

ProbeFetched ==
    /\ p.pc = "fetched"
    /\ p' = probe_fetched(p)
    /\ UNCHANGED <<net, read_min_bytes, run_vars>>

ProbeExcept ==
    /\ p.pc = "except"
    /\ p' = probe_except(p)
    /\ UNCHANGED <<net, read_min_bytes, run_vars>>

ProbeInit ==
    /\ net \in Nets
    /\ read_min_bytes \in MinBytesChoices
    /\ p = ProbeStart
    /\ domains_file = <<>> /\ dominios = <<>> /\ concurrency = 1 /\ rps = 0
    /\ delay = Unset
    /\ results = [d \in 1..MaxDomains |-> "none"]
    /\ queue = <<>> /\ unfinished = 0 /\ join_woken = FALSE
    /\ stop_event = FALSE
    /\ counters = [done |-> 0, alive |-> 0]
    /\ activos_list = <<>>
    /\ ui = [total |-> 0, done |-> 0, alive |-> 0, printed_domains |-> 0]
    /\ wpc = <<>> /\ wdom = <<>> /\ cancel_req = <<>>
    /\ dpc = "idle" /\ exit_code = -1
    /\ probes = [d \in 1..MaxDomains |-> 0]
    /\ done_log = <<>> /\ dropped = <<>> /\ requeued = <<>>

ProbeNext == ProbeLoop \/ SessionGet \/ ReadBody \/ ProbeFetched \/ ProbeExcept

ProbeSpec == ProbeInit /\ [][ProbeNext]_vars

\* main_async from its entry to the creation of the tasks: the file is read,
\* the list computed and the queue filled.
LoadInit ==
    /\ RunInit
    /\ domains_file \in Files
    /\ dominios = <<>>
    /\ concurrency = 1 /\ rps = 0
    /\ dpc = "load"

LoadNext == Load \/ Setup

LoadSpec == LoadInit /\ [][LoadNext]_vars

\* Lines 144-183 over the range of --concurrency and --rps.
PaceInit ==
    /\ RunInit
    /\ dominios \in {<<>>, <<1>>}
    /\ domains_file = dominios
    /\ concurrency \in PaceConcurrencyChoices
    /\ rps \in PaceRpsChoices
    /\ dpc = "init"

PaceSpec == PaceInit /\ [][Setup]_vars

\* ------------------------------------------------------------ the claims

\* How often d occurs in a sequence, and how many workers hold d.
Count(seq, d) == Cardinality({i \in 1..Len(seq) : seq[i] = d})
Holders(d) == {w \in DOMAIN wdom : wdom[w] = d}
Holding == {w \in DOMAIN wdom : wdom[w] # 0}

\* The workers inside probe().
InFlight == {w \in DOMAIN wpc : wpc[w] = "probe"}

\* C1: at no time are more than `concurrency` probes in flight.
C1_ConcurrencyBound == Cardinality(InFlight) <= concurrency

\* The bound is met with work still waiting in the queue.
C1_Witness ==
    /\ concurrency = MaxConcurrency
    /\ Cardinality(InFlight) = concurrency
    /\ queue # <<>>

\* C2: once the queue is filled, every input domain is in exactly one place
\* (the queue, one worker's hands, the recorded ones, the discarded ones),
\* `done` counts the recorded ones, each once, and done + remaining = total.
C2_Partition ==
    dpc \in {"join", "gather", "returned"} =>
        /\ \A d \in 1..total :
             Count(queue, d) + Cardinality(Holders(d))
               + Count(done_log, d) + Count(dropped, d) = 1
        /\ counters.done = Len(done_log)
        /\ counters.done
             + (Len(queue) + Cardinality(Holding) + Len(dropped)) = total

\* A stopped run is over with domains recorded, discarded and pushed back.
C2_Witness ==
    /\ dpc = "returned" /\ stop_event
    /\ done_log # <<>> /\ dropped # <<>> /\ requeued # <<>>

\* C3: with the stop flag set no step starts a probe, and the step of a worker
\* that resumes with a popped domain appends that domain to the queue, ends
\* the worker and leaves the counters, the alive list and the probe counts
\* as they were.
C3_PutBack ==
    [][ /\ stop_event =>
             /\ probes' = probes
             /\ \A w \in DOMAIN wpc : wpc'[w] = "probe" => wpc[w] = "probe"
        /\ \A w \in DOMAIN wpc :
             (stop_event /\ wpc[w] = "got" /\ wpc'[w] # "got") =>
                 /\ queue' = Append(queue, wdom[w])
                 /\ unfinished' = unfinished
                 /\ wpc'[w] \in {"returned", "sleep_ret"}
                 /\ counters' = counters
                 /\ activos_list' = activos_list
                 /\ done_log' = done_log
      ]_vars

\* A domain was pushed back, is in the queue and was never probed.
C3_Witness ==
    /\ requeued # <<>>
    /\ Count(queue, requeued[Len(requeued)]) = 1
    /\ probes[requeued[Len(requeued)]] = 0
    /\ stop_event

\* C4 as stated: a run in which every domain was processed exits 0, and 130
\* means that some domain was left unprocessed.
C4_Original ==
    dpc = "returned" =>
        /\ counters.done = total => exit_code = 0
        /\ exit_code = 130 => counters.done < total

\* C4, amended: the exit status is 130 exactly when a signal was received
\* before the driver returned and 0 otherwise; 0 implies that every domain
\* was processed, and an incomplete run exits 130.
C4_ExitStatus ==
    dpc = "returned" =>
        /\ exit_code = (IF stop_event THEN 130 ELSE 0)
        /\ exit_code = 0 => counters.done = total
        /\ counters.done < total => exit_code = 130

\* A signalled run in which every domain was nevertheless processed.
C4_Witness ==
    /\ dpc = "returned" /\ exit_code = 130
    /\ total > 0 /\ counters.done = total

\* What an endpoint does to one attempt, read off the endpoint alone: the
\* attempt fails when the GET fails, when a body is required and none comes,
\* or when the stream stalls before the required bytes are in.
AttemptFails(e, mb) ==
    \/ e.kind = "fail"
    \/ /\ e.status # 204 /\ mb > 0
       /\ \/ e.body = <<>>
          \/ SumSeq(e.body) < mb /\ e.end = "stall"

Answers2xx(e, mb) ==
    ~AttemptFails(e, mb) /\ e.status \in 200..299

AnswersOther(e, mb) ==
    ~AttemptFails(e, mb) /\ e.status \notin 200..299

\* C5 as stated: alive iff one of the two endpoints answers 2xx, and the
\* probe stops before http:// only on a success.
C5_Original ==
    p.pc = "return" =>
        /\ p.alive <=> \E i \in 1..2 : Answers2xx(net[i], read_min_bytes)
        /\ Len(p.att) = 1 => Answers2xx(net[1], read_min_bytes)

\* C5, amended: alive iff https:// answers 2xx, or https:// fails and http://
\* answers 2xx; the probe stops at the first attempt that returns any status.
C5_FirstResponseWins ==
    p.pc = "return" =>
        /\ p.alive <=>
             \/ Answers2xx(net[1], read_min_bytes)
             \/ /\ AttemptFails(net[1], read_min_bytes)
                /\ Answers2xx(net[2], read_min_bytes)
        /\ Len(p.att) = 1 <=> ~AttemptFails(net[1], read_min_bytes)

\* https:// answered a non-2xx status, http:// would have answered 2xx, and
\* the probe returned not alive after one attempt.
C5_Witness ==
    /\ p.pc = "return" /\ ~p.alive /\ Len(p.att) = 1
    /\ AnswersOther(net[1], read_min_bytes)
    /\ Answers2xx(net[2], read_min_bytes)

\* C6: the attempts are https:// then http://, an attempt starts only when
\* the one before is over, and http:// is attempted only after https://
\* failed, never after it returned a status.
C6_SchemeOrder ==
    /\ Len(p.att) <= 2
    /\ \A i \in 1..Len(p.att) :
         /\ p.att[i].scheme = <<"https://", "http://">>[i]
         /\ i < Len(p.att) => p.att[i].state # "running"
    /\ Len(p.att) = 2 =>
         /\ p.att[1].state = "failed"
         /\ ~Answers2xx(net[1], read_min_bytes)

\* The http:// attempt is running.
C6_Witness ==
    /\ Len(p.att) = 2
    /\ p.att[2].state = "running"
    /\ p.att[1].state = "failed"

\* C7: no failure of an attempt leaves probe(): whatever its kind, the next
\* step is the loop's next scheme with nothing else changed, and with both
\* attempts failed probe() returns alive = FALSE.
C7_NeverRaises ==
    /\ [](/\ p.pc # "raised"
          /\ p.pc = "except" =>
               p.err \in {"TransportFailure", "Timeout", "ProtocolFailure",
                          "NoBodyData"}
          /\ (/\ p.pc = "return"
              /\ AttemptFails(net[1], read_min_bytes)
              /\ AttemptFails(net[2], read_min_bytes)) =>
               /\ ~p.alive
               /\ Len(p.att) = 2
               /\ \A i \in 1..2 : p.att[i].state = "failed")
    /\ [][p.pc = "except" =>
             p' = [p EXCEPT !.pc = "loop", !.i = p.i + 1]]_vars

\* Both attempts failed, in two different ways, and probe() returned.
C7_Witness ==
    /\ p.pc = "return" /\ ~p.alive /\ Len(p.att) = 2
    /\ p.att[1].err = "ProtocolFailure"
    /\ p.att[2].err = "NoBodyData"

\* C8 as stated: alive through a status other than 204 with a threshold > 0
\* means that at least that many body bytes were read.
C8_Original ==
    (/\ p.pc = "return" /\ p.alive
     /\ read_min_bytes > 0 /\ p.status # 204) =>
        p.got >= read_min_bytes

\* C8, amended: at least one byte was read, and the threshold was reached
\* unless the stream ended first, with the whole body read.
C8_FirstByteRead ==
    (/\ p.pc = "return" /\ p.alive
     /\ read_min_bytes > 0 /\ p.status # 204) =>
        /\ p.got >= 1
        /\ \/ p.got >= read_min_bytes
           \/ /\ net[Len(p.att)].end = "eof"
              /\ p.got = SumSeq(net[Len(p.att)].body)

\* Alive on a body shorter than the threshold.
C8_Witness ==
    /\ p.pc = "return" /\ p.alive
    /\ read_min_bytes > 0 /\ p.status # 204
    /\ p.got < read_min_bytes

\* The first endpoint that answers at all (0: neither does).
FirstAnswering(nt) ==
    IF nt[1].kind = "resp" THEN 1 ELSE IF nt[2].kind = "resp" THEN 2 ELSE 0

\* C9: with a threshold of 0, a 2xx answer with an empty body from the first
\* endpoint that answers makes the domain alive, with no body read at all.
C9_ZeroThreshold ==
    (/\ p.pc = "return" /\ read_min_bytes = 0
     /\ FirstAnswering(net) # 0
     /\ net[FirstAnswering(net)].status \in 200..299
     /\ net[FirstAnswering(net)].body = <<>>) =>
        /\ p.alive
        /\ p.reads = 0
        /\ p.att[Len(p.att)].state = "returned"
        /\ Len(p.att) = FirstAnswering(net)

\* https:// refuses, http:// answers 200 with an empty body: alive.
C9_Witness ==
    /\ p.pc = "return" /\ read_min_bytes = 0 /\ p.alive
    /\ FirstAnswering(net) = 2
    /\ net[2].status = 200 /\ net[2].body = <<>> /\ net[2].end = "eof"

\* The run is over as C10 describes it.
RunOver ==
    /\ dpc = "returned" /\ exit_code = 0
    /\ counters.done = total
    /\ \A d \in 1..total : probes[d] = 1 /\ Count(done_log, d) = 1
    /\ \A w \in DOMAIN wpc : Finished(w)

\* C10: if no signal ever arrives, the run ends: every domain probed once
\* and counted, done = total, every worker over, exit status 0.
C10_Terminates == ([]~stop_event) => <>RunOver

\* A full-length input processed to the end by the largest pool, unsignalled.
C10_Witness ==
    /\ RunOver /\ ~stop_event
    /\ total = MaxDomains /\ concurrency = MaxConcurrency

\* C11 as stated, its end state: when the driver returns from a run that had
\* work, the queue is empty, every item pushed has been acknowledged and
\* every worker task is over.
C11_Original ==
    dpc = "returned" /\ total > 0 =>
        /\ queue = <<>>
        /\ unfinished = 0
        /\ \A w \in DOMAIN wpc : Finished(w)

\* A forced shutdown carried through: the signal came with work outstanding,
\* the driver drained the queue and returned.
C11_Witness ==
    /\ dpc = "returned" /\ stop_event
    /\ dropped # <<>> /\ counters.done < total

\* C12: the stop flag starts false and, once true, no step of a worker, of
\* the driver or of a further signal makes it false again.
C12_Monotonic == (~stop_event) /\ [][stop_event => stop_event']_vars

\* The flag set, then workers and driver acting on it up to the run's end,
\* the flag still set.
C12_Witness ==
    /\ stop_event /\ dpc = "returned"
    /\ requeued # <<>> /\ dropped # <<>>

\* C13: the delay the run computes is concurrency / rps when rps > 0 and 0
\* when rps is 0; with rps 10 and concurrency 50 it is 5 seconds.
C13_PacingDelay ==
    dpc = "join" =>
        /\ delay.den > 0
        /\ rps > 0 => delay.num * rps = concurrency * delay.den
        /\ rps = 0 => delay.num = 0
        /\ rps = 10 /\ concurrency = 50 => delay.num = 5 * delay.den

\* The delay computed for --rps 10 and --concurrency 50.
C13_Witness ==
    /\ dpc = "join" /\ rps = 10 /\ concurrency = 50
    /\ delay.den > 0 /\ delay.num = 5 * delay.den

\* What "trimmed" means: t is l without its leading and trailing blanks.
Blank(l, from, to) == \A k \in from..to : IsSpace(l[k])
IsTrimOf(t, l) ==
    \E i \in 0..Len(l) :
        /\ i + Len(t) <= Len(l)
        /\ SubSeq(l, i + 1, i + Len(t)) = t
        /\ Blank(l, 1, i) /\ Blank(l, i + Len(t) + 1, Len(l))
        /\ t # <<>> => ~IsSpace(t[1]) /\ ~IsSpace(t[Len(t)])

\* The first line of the file that trims to t.
FirstLine(t) ==
    CHOOSE k \in DOMAIN domains_file :
        /\ IsTrimOf(t, domains_file[k])
        /\ \A j \in 1..(k - 1) : ~IsTrimOf(t, domains_file[j])

\* The example of C14, with "a" for a.com and "aa" for b.com.
ExampleFile == << <<"a">>, <<"a">>, <<>>, <<"a", "a">> >>

\* C14: the domains pushed to the queue are the distinct trimmed non-empty
\* lines of the file (each entry is one, each of them is an entry), each
\* once, in the order of their first occurrence, and total is their number;
\* nothing is pushed when there is none.
C14_QueueIsUniqueTrimmed ==
    /\ dpc = "join" =>
        /\ \A k \in DOMAIN queue :
               /\ queue[k] # <<>>
               /\ \E j \in DOMAIN domains_file :
                      IsTrimOf(queue[k], domains_file[j])
        /\ \A j \in DOMAIN domains_file :
               \/ IsTrimOf(<<>>, domains_file[j])
               \/ \E k \in DOMAIN queue : IsTrimOf(queue[k], domains_file[j])
        /\ \A a, b \in DOMAIN queue : a # b => queue[a] # queue[b]
        /\ \A k \in 1..(Len(queue) - 1) :
               FirstLine(queue[k]) < FirstLine(queue[k + 1])
        /\ total = Len(queue) /\ ui.total = total /\ unfinished = total
        /\ domains_file = ExampleFile =>
               queue = << <<"a">>, <<"a", "a">> >> /\ total = 2
    /\ dpc = "returned" =>
        /\ queue = <<>>
        /\ \A j \in DOMAIN domains_file : IsTrimOf(<<>>, domains_file[j])

\* The example's file read and its queue filled.
C14_Witness ==
    /\ dpc = "join" /\ domains_file = ExampleFile
    /\ queue = << <<"a">>, <<"a", "a">> >>

\* The domains of done_log, the order of completion, that were found alive.
AliveInCompletionOrder == SelectSeq(done_log, LAMBDA d : results[d] = "alive")

\* One step leaves the alive list as it is or adds one entry at its end.
AppendOnly ==
    \/ activos_list' = activos_list
    \/ /\ Len(activos_list') = Len(activos_list) + 1
       /\ SubSeq(activos_list', 1, Len(activos_list)) = activos_list

\* C15: the alive list holds the alive domains in the order in which their
\* probes completed, whatever the input order, each reported to the UI as it
\* is appended; the list only grows at its end.
C15_CompletionOrder ==
    /\ [](/\ activos_list = AliveInCompletionOrder
          /\ ui.printed_domains = Len(activos_list))
    /\ [][AppendOnly]_vars

\* Two alive domains listed against their input order: the second completed
\* first.
C15_Witness ==
    /\ activos_list = <<2, 1>>
    /\ done_log = <<2, 1>>

\* The attempt on endpoint k is over.
AttemptOver(k) == k <= Len(p.att) /\ p.att[k].state # "running"

\* Endpoint e answers with a status other than 204 and ends its body before
\* any byte: the stream closes, or nothing comes in time.
NoBodyByte(e) == e.kind = "resp" /\ e.status # 204 /\ e.body = <<>>

\* C16: with a threshold above 0, an attempt whose answer is not a 204 and
\* brings no body byte fails, so after such an answer on https:// the probe
\* goes on to http://, which alone decides; an attempt answered by a 204
\* returns at once, a success, with no read of the body.
C16_EmptyBodyFails ==
    /\ \A k \in 1..Len(schemes) :
           (read_min_bytes > 0 /\ NoBodyByte(net[k]) /\ AttemptOver(k)) =>
               /\ p.att[k].state = "failed"
               /\ p.att[k].err =
                      IF net[k].end = "eof" THEN "NoBodyData" ELSE "Timeout"
    /\ (read_min_bytes > 0 /\ NoBodyByte(net[1]) /\ p.pc = "return") =>
           /\ Len(p.att) = 2 /\ p.att[2].scheme = "http://"
           /\ p.alive = Answers2xx(net[2], read_min_bytes)
    /\ \A k \in 1..Len(schemes) :
           (net[k].kind = "resp" /\ net[k].status = 204 /\ AttemptOver(k)) =>
               /\ p.att[k].state = "returned"
               /\ Len(p.att) = k /\ p.reads = 0 /\ p.got = 0
               /\ p.pc = "return" => p.alive

\* https:// answers 200 with a body that ends empty, http:// answers 204:
\* the first attempt failed for want of a byte, the second made it alive.
C16_Witness ==
    /\ p.pc = "return" /\ p.alive /\ read_min_bytes > 0
    /\ net[1].kind = "resp" /\ net[1].status = 200
    /\ net[1].body = <<>> /\ net[1].end = "eof"
    /\ p.att[1].err = "NoBodyData"
    /\ net[2].kind = "resp" /\ net[2].status = 204 /\ p.reads = 0

\* C17: the driver's step out of its loop, which on the forced path drains
\* the queue, leaves the queue empty with every item it removed acknowledged,
\* changes neither the counters nor the alive list nor the UI, starts no
\* probe, and has items to remove only when the stop flag is set; items
\* leave the queue in no other way than a worker's get or this drain.
C17_DrainFrame ==
    [][ /\ (dpc = "join" /\ dpc' = "gather") =>
             /\ (queue # <<>> \/ unfinished > 0) => stop_event
             /\ queue' = <<>>
             /\ unfinished' = unfinished - Len(queue)
             /\ counters' = counters /\ activos_list' = activos_list
             /\ ui' = ui /\ done_log' = done_log
             /\ probes' = probes /\ wpc' = wpc /\ wdom' = wdom
        /\ (Len(queue') < Len(queue) /\ wdom' = wdom) =>
             /\ stop_event /\ dpc = "join" /\ dpc' = "gather"
             /\ queue' = <<>>
      ]_vars

\* The whole input drained: the signal came before any worker took a domain.
C17_Witness ==
    /\ dpc = "gather" /\ stop_event
    /\ total = MaxDomains /\ dropped = dominios
    /\ queue = <<>> /\ unfinished = 0 /\ counters.done = 0

\* C18: the unfinished count is always the items waiting in the queue plus
\* the items a worker has popped and not yet acknowledged; it is never
\* negative; and a put-back pushes before it acknowledges, so the count is
\* the same after it and does not pass through zero (join() is not woken)
\* while the domain is pending.
C18_ExactAccounting ==
    /\ [](/\ unfinished = Len(queue) + Cardinality(Holding)
          /\ unfinished >= 0
          /\ (queue # <<>> \/ Holding # {}) => unfinished > 0
          /\ dpc = "join" => (join_woken <=> unfinished = 0))
    /\ [][ \A w \in DOMAIN wpc :
               (wpc[w] = "got" /\ wpc'[w] \in {"returned", "sleep_ret"}) =>
                   /\ queue' = Append(queue, wdom[w])
                   /\ unfinished' = unfinished /\ unfinished' > 0
                   /\ join_woken' = join_woken
         ]_vars

\* A put-back and the cancellation of a probe in flight in one run, with the
\* pushed-back domain still pending at the end.
C18_Witness ==
    /\ requeued # <<>> /\ dropped # <<>> /\ done_log # <<>>
    /\ dpc = "returned" /\ unfinished = 1 /\ Len(queue) = 1

\* queue.join() can return: the count is zero, or reached zero in this poll.
JoinCanReturn == dpc = "join" /\ (unfinished = 0 \/ join_woken)

\* Everything is processed: the queue is empty, no worker holds a domain or
\* is inside probe(), and the counter and the UI stand at total.
AllProcessed ==
    /\ queue = <<>> /\ InFlight = {} /\ Holding = {}
    /\ counters.done = total /\ ui.done = total
    /\ Len(done_log) = total

\* C19: whenever queue.join() can return to the driver, and on every step in
\* which the driver leaves its loop without the stop flag, everything is
\* processed, the counters already updated; a stop flag set in the meantime
\* changes nothing of it.
C19_JoinMeansDone ==
    /\ [](JoinCanReturn => AllProcessed)
    /\ [][(dpc = "join" /\ dpc' = "gather" /\ ~stop_event) => AllProcessed]_vars

\* join() is about to return on a full-length input, all of it counted,
\* with the stop flag set while the last probe was in flight.
C19_Witness ==
    /\ JoinCanReturn /\ stop_event
    /\ total = MaxDomains /\ counters.done = total

\* The domains of the input.
InputDomains == {dominios[k] : k \in DOMAIN dominios}

\* C20: always 0 <= alive <= done <= total; the alive counter is the length
\* of the alive list; the list holds no domain twice; and every domain in it
\* is an input domain whose probe was run and returned alive.
C20_CountersAndList ==
    /\ 0 <= counters.alive /\ counters.alive <= counters.done
    /\ counters.done <= total
    /\ counters.alive = Len(activos_list)
    /\ \A a, b \in DOMAIN activos_list :
           a # b => activos_list[a] # activos_list[b]
    /\ \A k \in DOMAIN activos_list :
           /\ activos_list[k] \in InputDomains
           /\ results[activos_list[k]] = "alive"
           /\ probes[activos_list[k]] = 1

\* A full-length input all counted, some of it alive and some not.
C20_Witness ==
    /\ counters.done = total /\ total = MaxDomains
    /\ counters.alive = 2 /\ Len(activos_list) = 2
    /\ \E d \in InputDomains : results[d] = "dead"

====
